---- MODULE Spec2Model ----
(***************************************************************************)
(* sesh: session lifecycle and resource coordination.                      *)
(* The file system under <parent>/.sesh is the shared state; every command *)
(* (start, checkout, stop, activate, doctor, exec) is a short-lived        *)
(* invocation that walks through its source in steps.                      *)
(***************************************************************************)
EXTENDS Integers, Sequences, FiniteSets, TLC

\* ------------------------------------------------------------------ bounds
\* invocations begun in one behaviour of the sequential specification
MaxInv == 3
\* invocations begun in one behaviour of the overlapping specification
MaxConcInv == 2
\* lock-manager calls in one behaviour of the lock-manager specification
MaxLockOps == 3
\* sleeps of the kill escalation before its deadline is certain to have passed
MaxPolls == 2

\* ------------------------------------------------- configuration and inputs
\* repositories found by discover_repos, in its sorted order
RepoOrder == <<"api", "infra">>
Repos == {RepoOrder[i] : i \in 1..Len(RepoOrder)}
\* sesh.toml: repos.<name>.exclusive
Exclusive == {"infra"}
\* sesh.toml: scripts.setup entries (path, background)
GlobalSetup == <<[path |-> <<"up", ".sh">>, background |-> FALSE]>>
\* sesh.toml: repos.<name>.setup entries
RepoSetup(r) ==
  IF r = "infra" THEN <<[path |-> <<"svc", ".sh">>, background |-> FALSE]>>
  ELSE <<[path |-> <<"bin", "/", "watch">>, background |-> TRUE]>>
\* branch names offered to start / checkout: two valid git branch names
Branches == { <<"f", "/", "x">>, <<"g">> }
\* the two invoking processes
Procs == {1, 2}

\* session.json absent
NoRec == [present |-> FALSE]
\* session.json present with content that does not parse as a SessionInfo
Garbled == [present |-> TRUE, garbled |-> TRUE]
\* <repo>.lock absent
NoLock == [present |-> FALSE]

\* --------------------------------------------------------------- helpers
SeqToSet(s) == {s[i] : i \in 1..Len(s)}

\* the members of a set of repositories in discovery order
RECURSIVE Filter(_, _)
Filter(seq, S) ==
  IF seq = <<>> THEN <<>>
  ELSE (IF Head(seq) \in S THEN <<Head(seq)>> ELSE <<>>) \o Filter(Tail(seq), S)

Digit == <<"0", "1", "2", "3", "4", "5", "6", "7", "8", "9">>
RECURSIVE Dec(_)
Dec(n) == IF n < 10 THEN <<Digit[n + 1]>> ELSE Dec(n \div 10) \o <<Digit[(n % 10) + 1]>>

\* branch.replace('/', "-")
ReplaceSlash(b) == [i \in 1..Len(b) |-> IF b[i] = "/" THEN "-" ELSE b[i]]
TrimOneDot(s) == IF s # <<>> /\ Head(s) = "." THEN Tail(s) ELSE s
\* trim_start_matches('.')
RECURSIVE TrimDots(_)
TrimDots(s) == IF s # <<>> /\ Head(s) = "." THEN TrimDots(Tail(s)) ELSE s
BaseName(b) ==
  LET t == TrimDots(ReplaceSlash(b))
  IN IF t = <<>> THEN <<"s", "e", "s", "s", "i", "o", "n">> ELSE t
RECURSIVE FirstFree(_, _, _)
FirstFree(base, existing, k) ==
  IF (base \o <<"-">> \o Dec(k)) \notin existing
  THEN base \o <<"-">> \o Dec(k)
  ELSE FirstFree(base, existing, k + 1)
sanitize_session_name_unchecked(b, existing) == BaseName(b)
sanitize_session_name(b, existing) ==
  IF BaseName(b) \notin existing THEN BaseName(b)
  ELSE FirstFree(BaseName(b), existing, 2)

\* -------------------------------------------------------------- the state
VARIABLES
  sessions,   \* .sesh/sessions: directory name -> [json, pids]
  wtReg,      \* git's worktree registrations: records [sess, repo, branch]
  wtDir,      \* worktree directories on disk: <<session, repo>>
  branches,   \* local branches: <<repo, branch>>
  locks,      \* .sesh/locks: repo -> NoLock or [session, locked_at]
  alive,      \* running background processes: [sess, label]
  now,        \* invocations begun so far (the clock read by Utc::now)
  limit,      \* invocations allowed in this behaviour
  run,        \* per process: position and locals of its invocation
  granted,    \* history: repo -> sessions granted the lock and not since stopped or displaced
  lm,         \* the last lock-manager call and its result
  killer,     \* a kill_background_pids call: its position and locals, and the processes it addresses
  exec        \* an exec invocation: its position and locals, its threads, what it has printed

vars == <<sessions, wtReg, wtDir, branches, locks, alive, now, limit, run, granted, lm, killer, exec>>

Idle == [pc |-> "idle"]
NoCall == [op |-> "none"]
NoKill == [pc |-> "none"]
NoExec == [pc |-> "none"]

\* ------------------------------------------------------ session registry
\* session.rs list_sessions: the names whose session.json loads
list_sessions(s) == {n \in DOMAIN s : s[n].json \notin {NoRec, Garbled}}
\* session.rs session_exists: session.json is present
session_exists(s, n) == n \in DOMAIN s /\ s[n].json # NoRec
find_session_by_branch_none(s, b) == {}
\* session.rs find_session_by_branch
find_session_by_branch(s, b) == {n \in list_sessions(s) : s[n].json.branch = b}
\* session.rs save_session: create the directory, overwrite session.json
save_session(s, n, rec) ==
  IF n \in DOMAIN s THEN [s EXCEPT ![n].json = rec]
  ELSE [m \in DOMAIN s \cup {n} |-> IF m = n THEN [json |-> rec, pids |-> <<>>] ELSE s[m]]
\* create_dir_all of the session directory (a side effect of git worktree add)
MkSessDir(s, n) ==
  IF n \in DOMAIN s THEN s
  ELSE [m \in DOMAIN s \cup {n} |-> IF m = n THEN [json |-> NoRec, pids |-> <<>>] ELSE s[m]]
\* session.rs delete_session_dir: remove_dir_all
delete_session_dir(s, n) == [m \in DOMAIN s \ {n} |-> s[m]]
\* session.rs save_background_pids
save_background_pids(s, n, pids) == [s EXCEPT ![n].pids = pids]

\* ---------------------------------------------------------- lock manager
\* lock.rs check_lock
check_lock(l, r) == l[r]
acquire_lock_everywhere(l, r, n, t) ==
  [x \in DOMAIN l |-> [present |-> TRUE, session |-> n, locked_at |-> t]]
acquire_lock_if_absent(l, r, n, t) ==
  IF l[r] = NoLock THEN [l EXCEPT ![r] = [present |-> TRUE, session |-> n, locked_at |-> t]] ELSE l
\* lock.rs acquire_lock: unconditional write of {session, now}
acquire_lock(l, r, n, t) == [l EXCEPT ![r] = [present |-> TRUE, session |-> n, locked_at |-> t]]
release_lock_all(l, r) == [x \in DOMAIN l |-> NoLock]
\* lock.rs release_lock: remove the file if present
release_lock(l, r) == [l EXCEPT ![r] = NoLock]
\* lock.rs list_locks
list_locks(l) == {r \in DOMAIN l : l[r] # NoLock}


\* ---------------------------------------------------- worktree provisioner
Wt(n, r, b) == [sess |-> n, repo |-> r, branch |-> b]
\* the worktree path sess_dir/<repo> is neither on disk nor registered
PathFree(n, r) == <<n, r>> \notin wtDir /\ \A w \in wtReg : ~(w.sess = n /\ w.repo = r)
\* worktree.rs branch_exists
branch_exists(r, b) == <<r, b>> \in branches
\* the branch is checked out in a registered worktree of the repository
is_branch_on_worktree(r, b) == \E w \in wtReg : w.repo = r /\ w.branch = b
\* worktree.rs create_worktree: git worktree add <path> -b <branch> <base>
CanCreate(n, r, b) == ~branch_exists(r, b) /\ PathFree(n, r)
\* git worktree add <path> <branch> for an existing local or remote branch
CanCheckoutExisting(n, r, b) == ~is_branch_on_worktree(r, b) /\ PathFree(n, r)
\* the effect of a successful git worktree add
AddWorktree(n, r, b) ==
  /\ wtReg' = wtReg \cup {Wt(n, r, b)}
  /\ wtDir' = wtDir \cup {<<n, r>>}
  /\ branches' = branches \cup {<<r, b>>}
\* worktree.rs remove_worktree: git worktree remove <path> --force
CanRemove(n, r) == \E w \in wtReg : w.sess = n /\ w.repo = r
RemoveReg(reg, n, r) == {w \in reg : ~(w.sess = n /\ w.repo = r)}
\* worktree.rs prune_worktrees: drop registrations whose directory is gone
prune_worktrees(reg, dirs, r) == {w \in reg : w.repo # r \/ <<w.sess, w.repo>> \in dirs}

\* ------------------------------------------------------- script planning
\* start.rs sanitize_label and the label formats of the two script loops
\* mod.rs sanitize_label, trim_start_matches(['.', '-']): a path is a
\* sequence of pieces, ".sh" one piece; its leading '.' is trimmed as well
RECURSIVE TrimStart(_)
TrimStart(s) ==
  IF s = <<>> THEN s
  ELSE IF Head(s) \in {".", "-"} THEN TrimStart(Tail(s))
  ELSE IF Head(s) = ".sh" THEN <<"sh">> \o Tail(s)
  ELSE s
\* mod.rs sanitize_label, trim_end_matches(".sh")
RECURSIVE TrimEndSh(_)
TrimEndSh(s) ==
  IF s # <<>> /\ s[Len(s)] = ".sh" THEN TrimEndSh(SubSeq(s, 1, Len(s) - 1)) ELSE s
\* mod.rs sanitize_label: '/' and '\' become '-', then the two trims
sanitize_label(path) ==
  TrimEndSh(TrimStart([i \in 1..Len(path) |-> IF path[i] \in {"/", "\\"} THEN "-" ELSE path[i]]))
\* mod.rs finalize_session: "global-setup-<label>" and "<repo>-setup-<label>"
Label(scope, path) == <<scope, "-", "setup", "-">> \o sanitize_label(path)
RECURSIVE RepoPlan(_)
RepoPlan(sel) ==
  IF sel = <<>> THEN <<>>
  ELSE [i \in 1..Len(RepoSetup(Head(sel))) |->
          [scope |-> Head(sel), entry |-> RepoSetup(Head(sel))[i]]] \o RepoPlan(Tail(sel))
\* the setup scripts a run executes: every global entry, then, for every
\* selected repository in order, every entry of that repository
ScriptPlan(sel, skipped) ==
  [i \in 1..Len(GlobalSetup) |-> [scope |-> "global", entry |-> GlobalSetup[i]]] \o RepoPlan(sel)
\* SESH_EXCLUSIVE_SKIP is passed to global scripts when the list is non-empty
ExtraEnv(scope, skipped) == IF scope = "global" /\ skipped # <<>> THEN skipped ELSE <<>>

\* --------------------------------------------------- positions of a run
Upd(p, r) == run' = [run EXCEPT ![p] = r]
Done(r, res, at) == [r EXCEPT !.pc = "done", !.result = res, !.failedAt = at]
\* after the lock loop: step 11 (setup scripts) unless --no-setup
AfterLocks(r) ==
  LET plan == ScriptPlan(r.sel, r.skipped)
  IN IF r.noSetup \/ plan = <<>> THEN [r EXCEPT !.pc = "finish", !.idx = 1]
     ELSE [r EXCEPT !.pc = "script", !.idx = 1, !.scripts = plan]
\* the lock loop visits the selected exclusive repositories in order
GoLock(r, i) ==
  IF i > Len(r.excl) THEN AfterLocks(r) ELSE [r EXCEPT !.pc = "lock_check", !.idx = i]
AfterWorktreesLocksFirst(r) == GoLock(r, 1)
\* after the last worktree: step 6, save the session
AfterWorktrees(r) == [r EXCEPT !.pc = "save"]
\* after a failed worktree step with worktrees already created: rollback
AfterWtFailure(r) ==
  IF r.created = <<>> THEN Done(r, "err", "worktree")
  ELSE [r EXCEPT !.pc = "rollback", !.ridx = Len(r.created), !.failedAt = "worktree"]
FailLateRollback(r, at) ==
  [r EXCEPT !.pc = "rollback", !.ridx = Len(r.created), !.failedAt = at]
\* a failure after the session was saved returns through `?`: no rollback
FailLate(r, at) == Done(r, "err", at)
\* checkout.rs: a failed branch probe returns through `?`
AfterProbeFailure(r) == Done(r, "err", "probe")

NewRun(c, b, sel, ns) ==
  [pc |-> "wt", cmd |-> c, id |-> now + 1, branch |-> b,
   name |-> sanitize_session_name(b, DOMAIN sessions),
   sel |-> Filter(RepoOrder, sel), excl |-> Filter(RepoOrder, sel \cap Exclusive),
   noSetup |-> ns, idx |-> 1, created |-> <<>>, ridx |-> 0, undo |-> <<>>,
   lk |-> NoLock, stale |-> FALSE, skipped |-> <<>>, scripts |-> <<>>,
   bg |-> <<>>, ran |-> {}, report |-> {}, saved |-> FALSE, touched |-> FALSE,
   acquired |-> {}, found |-> {}, result |-> "none", failedAt |-> "none"]
Aborted(c, b, at) ==
  [pc |-> "done", cmd |-> c, id |-> now + 1, branch |-> b, result |-> "err", failedAt |-> at]

\* a new invocation takes the first process that is not running one
CanBegin(p) == run[p].pc = "idle" /\ now < limit /\ \A q \in Procs : q < p => run[q].pc # "idle"

\* ------------------------------------------------------ start / checkout
\* start.rs run, steps 1-4 and the name derivation: SeshConfig::load and the
\* preset lookup, then resolve_branch_name with the branch given as a flag
BeginStart(p) ==
  /\ CanBegin(p)
  /\ \/ Upd(p, Aborted("start", <<>>, "config"))
     \/ \E b \in Branches, sel \in (SUBSET Repos) \ {{}}, ns \in BOOLEAN :
          IF find_session_by_branch(sessions, b) # {} \/ \E r \in sel : branch_exists(r, b)
          THEN Upd(p, Aborted("start", b, "conflict"))
          ELSE Upd(p, NewRun("start", b, sel, ns))
  /\ now' = now + 1
  /\ UNCHANGED <<sessions, wtReg, wtDir, branches, locks, alive, limit, granted, lm, killer, exec>>

\* checkout.rs run up to the name derivation, check_worktree_conflicts included
BeginCheckout(p) ==
  /\ CanBegin(p)
  /\ \/ Upd(p, Aborted("checkout", <<>>, "config"))
     \/ \E b \in Branches, sel \in (SUBSET Repos) \ {{}}, ns \in BOOLEAN :
          IF \E r \in sel : is_branch_on_worktree(r, b)
          THEN Upd(p, Aborted("checkout", b, "conflict"))
          ELSE Upd(p, NewRun("checkout", b, sel, ns))
  /\ now' = now + 1
  /\ UNCHANGED <<sessions, wtReg, wtDir, branches, locks, alive, limit, granted, lm, killer, exec>>

\* start.rs step 5 / checkout.rs mixed-strategy loop: one repository
WorktreeStep(p) ==
  LET r == run[p]
      repo == r.sel[r.idx]
      next == [r EXCEPT !.created = Append(@, repo), !.idx = @ + 1]
      feasible(existing) ==
        IF existing THEN CanCheckoutExisting(r.name, repo, r.branch)
        ELSE CanCreate(r.name, repo, r.branch)
  IN /\ r.pc = "wt"
     /\ \E out \in {"ok", "fail", "probe_err"}, has_remote \in BOOLEAN :
          LET existing == r.cmd = "checkout" /\ (branch_exists(repo, r.branch) \/ has_remote)
          IN CASE out = "ok" ->
                    /\ r.cmd = "start" => ~has_remote
                    /\ feasible(existing)
                    /\ AddWorktree(r.name, repo, r.branch)
                    /\ sessions' = MkSessDir(sessions, r.name)
                    /\ Upd(p, IF r.idx = Len(r.sel) THEN AfterWorktrees(next) ELSE next)
               [] out = "fail" ->
                    /\ ~has_remote
                    /\ Upd(p, AfterWtFailure(r))
                    /\ UNCHANGED <<sessions, wtReg, wtDir, branches>>
               [] out = "probe_err" ->
                    /\ r.cmd = "checkout" /\ ~has_remote
                    /\ Upd(p, AfterProbeFailure(r))
                    /\ UNCHANGED <<sessions, wtReg, wtDir, branches>>
  /\ UNCHANGED <<locks, alive, now, limit, granted, lm, killer, exec>>

AfterRemoveStopOnError(r, removed) ==
  IF r.ridx = 1 \/ ~removed THEN [r EXCEPT !.pc = "done", !.result = "err", !.ridx = 0]
  ELSE [r EXCEPT !.ridx = @ - 1]
\* rollback_worktrees: a failed remove_worktree is printed and the loop goes
\* on; after the oldest worktree the caller returns the error
AfterRemove(r, removed) ==
  IF r.ridx = 1 THEN [r EXCEPT !.pc = "done", !.result = "err", !.ridx = 0]
  ELSE [r EXCEPT !.ridx = @ - 1]

\* start.rs / checkout.rs rollback_worktrees: one removal, newest first
Rollback(p) ==
  LET r == run[p]
      repo == r.created[r.ridx]
      called == [r EXCEPT !.undo = Append(@, repo)]
  IN /\ r.pc = "rollback"
     /\ \E ok \in BOOLEAN :
          LET removed == ok /\ CanRemove(r.name, repo)
          IN /\ IF removed
                THEN /\ wtReg' = RemoveReg(wtReg, r.name, repo)
                     /\ wtDir' = wtDir \ {<<r.name, repo>>}
                ELSE UNCHANGED <<wtReg, wtDir>>
             /\ Upd(p, AfterRemove(called, removed))
  /\ UNCHANGED <<sessions, branches, locks, alive, now, limit, granted, lm, killer, exec>>


\* start.rs steps 6-9 / mod.rs finalize_session up to the lock loop:
\* save_session, then copies, .mcp.json and the context document
SaveSession(p) ==
  LET r == run[p]
      rec == [present |-> TRUE, name |-> r.name, branch |-> r.branch, repos |-> r.sel, created_at |-> r.id]
      saved == [r EXCEPT !.saved = TRUE]
  IN /\ r.pc = "save"
     /\ \E out \in {"ok", "save_err", "prep_err"} :
          CASE out = "save_err" -> Upd(p, Done(r, "err", "save")) /\ UNCHANGED sessions
            [] out = "prep_err" ->
                 Upd(p, FailLate(saved, "prep")) /\ sessions' = save_session(sessions, r.name, rec)
            [] out = "ok" ->
                 Upd(p, GoLock(saved, 1)) /\ sessions' = save_session(sessions, r.name, rec)
     /\ UNCHANGED <<wtReg, wtDir, branches, locks, alive, now, limit, granted, lm, killer, exec>>

\* start.rs step 10 / mod.rs: lock::check_lock for one exclusive repository
LockCheck(p) ==
  LET r == run[p]
      repo == r.excl[r.idx]
      seen == check_lock(locks, repo)
  IN /\ r.pc = "lock_check"
     /\ \E ok \in BOOLEAN :
          IF ~ok THEN Upd(p, FailLate([r EXCEPT !.touched = TRUE], "lock"))
          ELSE Upd(p, [r EXCEPT !.touched = TRUE, !.lk = seen, !.stale = FALSE,
                                !.pc = IF seen = NoLock THEN "lock_write" ELSE "lock_exists"])
     /\ UNCHANGED <<sessions, wtReg, wtDir, branches, locks, alive, now, limit, granted, lm, killer, exec>>

HolderDecisionAlwaysReclaim(s, lk) == "reclaim"
HolderDecisionAlwaysSkip(s, lk) == "skip"
HolderDecisionInverted(s, lk) == IF session_exists(s, lk.session) THEN "reclaim" ELSE "skip"
\* the Some(lock_info) arm: skip if the holder still exists, else reclaim
HolderDecision(s, lk) == IF session_exists(s, lk.session) THEN "skip" ELSE "reclaim"

LockExists(p) ==
  LET r0 == run[p]
      repo == r0.excl[r0.idx]
      r == [r0 EXCEPT !.found = @ \cup {[repo |-> repo, lock |-> r0.lk,
                                          live |-> session_exists(sessions, r0.lk.session)]}]
  IN /\ r0.pc = "lock_exists"
     /\ IF HolderDecision(sessions, r.lk) = "skip"
        THEN Upd(p, GoLock([r EXCEPT !.skipped = Append(@, repo),
                                     !.report = @ \cup {<<"skipped", repo>>}], r.idx + 1))
        ELSE Upd(p, [r EXCEPT !.pc = "lock_write", !.stale = TRUE])
     /\ UNCHANGED <<sessions, wtReg, wtDir, branches, locks, alive, now, limit, granted, lm, killer, exec>>

\* lock::acquire_lock in the None arm and in the stale arm
LockWrite(p) ==
  LET r == run[p]
      repo == r.excl[r.idx]
      msg == IF r.stale THEN "reclaimed" ELSE "acquired"
  IN /\ r.pc = "lock_write"
     /\ \E ok \in BOOLEAN :
          IF ok
          THEN /\ locks' = acquire_lock(locks, repo, r.name, r.id)
               /\ granted' = [granted EXCEPT ![repo] = @ \cup {r.name}]
               /\ Upd(p, GoLock([r EXCEPT !.acquired = @ \cup {repo},
                                          !.report = @ \cup {<<msg, repo>>}], r.idx + 1))
          ELSE /\ Upd(p, FailLate([r EXCEPT !.report = @ \cup {<<"error", repo>>}], "lock"))
               /\ UNCHANGED <<locks, granted>>
     /\ UNCHANGED <<sessions, wtReg, wtDir, branches, alive, now, limit, lm, killer, exec>>

\* start.rs step 11 / mod.rs: one setup script, run in the foreground or spawned
SetupScript(p) ==
  LET r == run[p]
      s == r.scripts[r.idx]
      lab == Label(s.scope, s.entry.path)
      ev == [scope |-> s.scope, path |-> s.entry.path, env |-> ExtraEnv(s.scope, r.skipped)]
      after == [r EXCEPT !.ran = @ \cup {ev}, !.idx = @ + 1,
                         !.bg = IF s.entry.background THEN Append(@, lab) ELSE @,
                         !.pc = IF r.idx = Len(r.scripts) THEN "finish" ELSE "script"]
  IN /\ r.pc = "script"
     /\ \E ok \in BOOLEAN :
          IF ok
          THEN /\ Upd(p, after)
               /\ alive' = IF s.entry.background
                           THEN alive \cup {[sess |-> r.name, label |-> lab]} ELSE alive
          ELSE /\ Upd(p, FailLate(IF s.entry.background THEN r ELSE [r EXCEPT !.ran = @ \cup {ev}],
                                  "script"))
               /\ UNCHANGED alive
     /\ UNCHANGED <<sessions, wtReg, wtDir, branches, locks, now, limit, granted, lm, killer, exec>>

\* start.rs steps 12-14 / mod.rs: save_background_pids, VS Code, summary
Finish(p) ==
  LET r == run[p]
      write == r.bg # <<>>
  IN /\ r.pc = "finish"
     /\ \E out \in {"ok", "pids_err", "vscode_err"} :
          CASE out = "pids_err" -> write /\ Upd(p, FailLate(r, "pids")) /\ UNCHANGED sessions
            [] out \in {"ok", "vscode_err"} ->
                 /\ write => r.name \in DOMAIN sessions
                 /\ sessions' = IF write THEN save_background_pids(sessions, r.name, r.bg)
                                ELSE sessions
                 /\ Upd(p, IF out = "ok" THEN Done(r, "ok", "none") ELSE FailLate(r, "vscode"))
     /\ UNCHANGED <<wtReg, wtDir, branches, locks, alive, now, limit, granted, lm, killer, exec>>

\* the invocation exits
Return(p) ==
  /\ run[p].pc = "done"
  /\ Upd(p, Idle)
  /\ UNCHANGED <<sessions, wtReg, wtDir, branches, locks, alive, now, limit, granted, lm, killer, exec>>

\* the steps shared by start and checkout once the invocation has begun
ProvisionSteps(p) ==
  \/ WorktreeStep(p) \/ Rollback(p) \/ SaveSession(p)
  \/ LockCheck(p) \/ LockExists(p) \/ LockWrite(p) \/ SetupScript(p) \/ Finish(p)
Provision(p) == BeginStart(p) \/ BeginCheckout(p) \/ ProvisionSteps(p)

\* ------------------------------------------------------------------ stop
\* sesh.toml: [[scripts.teardown]] and the teardown entries of a repository
GlobalTeardown == <<"down">>
RepoTeardown(r) == IF r = "infra" THEN <<"svc_down">> ELSE <<>>
RECURSIVE RepoTeardownPlan(_)
RepoTeardownPlan(repos) ==
  IF repos = <<>> THEN <<>>
  ELSE [i \in 1..Len(RepoTeardown(Head(repos))) |->
          [scope |-> Head(repos), path |-> RepoTeardown(Head(repos))[i]]]
       \o RepoTeardownPlan(Tail(repos))
\* stop.rs: the per-repo teardown scripts of the session's repositories in
\* order, then the global ones
TeardownPlan(repos) ==
  RepoTeardownPlan(repos) \o [i \in 1..Len(GlobalTeardown) |-> [scope |-> "global", path |-> GlobalTeardown[i]]]
RECURSIVE TeardownRunUntilFailure(_, _)
TeardownRunUntilFailure(plan, failed) ==
  IF plan = <<>> THEN <<>>
  ELSE IF Head(plan) \in failed THEN <<Head(plan)>>
  ELSE <<Head(plan)>> \o TeardownRunUntilFailure(Tail(plan), failed)
\* stop.rs: `if let Err(e) = run_script_entry(..)` prints a warning and the
\* loops go on: every script of the plan is run whichever of them fail
TeardownRun(plan, failed) == plan
\* scripts.rs kill_background_pids on the pids recorded for a session
KillRecorded(a, s, n) == {x \in a : ~(x.sess = n /\ x.label \in SeqToSet(s[n].pids))}

GoStopLock(r, i) ==
  IF i > Len(r.excl) THEN [r EXCEPT !.pc = "stop_delete"]
  ELSE [r EXCEPT !.pc = "stop_lock_check", !.idx = i]
AfterStopWorktrees(r) == IF r.keep THEN GoStopLock(r, 1) ELSE [r EXCEPT !.pc = "stop_br"]

\* stop.rs run: pick_session, kill background pids, SeshConfig::load,
\* teardown scripts
BeginStop(p) ==
  /\ CanBegin(p)
  /\ \E n \in list_sessions(sessions), keep \in BOOLEAN, cfg_ok \in BOOLEAN :
       LET plan == TeardownPlan(sessions[n].json.repos)
       IN /\ \E failed \in SUBSET SeqToSet(plan) :
               LET r == [pc |-> "stop_wt", cmd |-> "stop", id |-> now + 1, name |-> n,
                         branch |-> sessions[n].json.branch, repos |-> sessions[n].json.repos,
                         excl |-> Filter(sessions[n].json.repos, Exclusive), keep |-> keep,
                         idx |-> 1, toreDown |-> {n}, released |-> {}, tried |-> {},
                         recorded |-> SeqToSet(sessions[n].pids),
                         tdRan |-> TeardownRun(plan, failed), tdFailed |-> failed,
                         result |-> "none", failedAt |-> "none"]
               IN IF cfg_ok THEN Upd(p, r)
                  ELSE /\ failed = {} /\ ~keep
                       /\ Upd(p, Done([r EXCEPT !.toreDown = {}, !.tdRan = <<>>], "err", "config"))
          /\ alive' = KillRecorded(alive, sessions, n)
          /\ granted' = IF cfg_ok THEN [r \in Repos |-> granted[r] \ {n}] ELSE granted
  /\ now' = now + 1
  /\ UNCHANGED <<sessions, wtReg, wtDir, branches, locks, limit, lm, killer, exec>>

\* stop.rs: remove_worktree then prune_worktrees for one repository
StopWorktree(p) ==
  LET r == run[p]
      repo == r.repos[r.idx]
      next == IF r.idx = Len(r.repos) THEN AfterStopWorktrees(r) ELSE [r EXCEPT !.idx = @ + 1]
  IN /\ r.pc = "stop_wt"
     /\ \E ok \in BOOLEAN :
          LET removed == ok /\ CanRemove(r.name, repo)
              reg1 == IF removed THEN RemoveReg(wtReg, r.name, repo) ELSE wtReg
              dir1 == IF removed THEN wtDir \ {<<r.name, repo>>} ELSE wtDir
          IN /\ wtReg' = prune_worktrees(reg1, dir1, repo)
             /\ wtDir' = dir1
     /\ Upd(p, [next EXCEPT !.tried = @ \cup {repo}])
     /\ UNCHANGED <<sessions, branches, locks, alive, now, limit, granted, lm, killer, exec>>

\* worktree.rs delete_branch: git branch -D refuses a checked-out branch
delete_branch(br, reg, r, b) ==
  IF \E w \in reg : w.repo = r /\ w.branch = b THEN br ELSE br \ {<<r, b>>}

\* stop.rs: delete the session's branch in every repository
StopBranches(p) ==
  LET r == run[p]
  IN /\ r.pc = "stop_br"
     /\ branches' = {x \in branches :
                       x \in delete_branch(branches, wtReg, x[1], x[2])
                       \/ ~(x[2] = r.branch /\ x[1] \in SeqToSet(r.repos))}
     /\ Upd(p, GoStopLock(r, 1))
     /\ UNCHANGED <<sessions, wtReg, wtDir, locks, alive, now, limit, granted, lm, killer, exec>>

HeldByAnyone(lk, n) == lk # NoLock
\* stop.rs: the lock is released only if check_lock names this session
HeldBy(lk, n) == lk # NoLock /\ lk.session = n

StopLockCheck(p) ==
  LET r == run[p]
      repo == r.excl[r.idx]
  IN /\ r.pc = "stop_lock_check"
     /\ \E ok \in BOOLEAN :
          IF ok /\ HeldBy(check_lock(locks, repo), r.name)
          THEN Upd(p, [r EXCEPT !.pc = "stop_lock_release"])
          ELSE Upd(p, GoStopLock(r, r.idx + 1))
     /\ UNCHANGED <<sessions, wtReg, wtDir, branches, locks, alive, now, limit, granted, lm, killer, exec>>

StopLockRelease(p) ==
  LET r == run[p]
      repo == r.excl[r.idx]
  IN /\ r.pc = "stop_lock_release"
     /\ \E ok \in BOOLEAN :
          IF ok
          THEN /\ locks' = release_lock(locks, repo)
               /\ Upd(p, GoStopLock([r EXCEPT !.released = @ \cup {repo}], r.idx + 1))
          ELSE /\ UNCHANGED locks
               /\ Upd(p, GoStopLock(r, r.idx + 1))
     /\ UNCHANGED <<sessions, wtReg, wtDir, branches, alive, now, limit, granted, lm, killer, exec>>

\* stop.rs: delete_session_dir
StopDelete(p) ==
  LET r == run[p]
  IN /\ r.pc = "stop_delete"
     /\ \E ok \in BOOLEAN :
          IF ok /\ r.name \in DOMAIN sessions
          THEN /\ sessions' = delete_session_dir(sessions, r.name)
               /\ wtDir' = {d \in wtDir : d[1] # r.name}
               /\ Upd(p, Done(r, "ok", "none"))
          ELSE /\ UNCHANGED <<sessions, wtDir>>
               /\ Upd(p, Done(r, "err", "delete"))
     /\ UNCHANGED <<wtReg, branches, locks, alive, now, limit, granted, lm, killer, exec>>

Stop(p) ==
  \/ BeginStop(p) \/ StopWorktree(p) \/ StopBranches(p)
  \/ StopLockCheck(p) \/ StopLockRelease(p) \/ StopDelete(p)

\* -------------------------------------------------------------- activate
\* after the lock loop: teardown of the sessions that lost a lock
GoActivate(r, i) ==
  IF i > Len(r.excl) THEN [r EXCEPT !.pc = "act_teardown"]
  ELSE [r EXCEPT !.pc = "act_check", !.idx = i]

\* activate.rs run: config, pick_session, the target's exclusive repositories
BeginActivate(p) ==
  /\ CanBegin(p)
  /\ \E n \in list_sessions(sessions) :
       LET ex == Filter(sessions[n].json.repos, Exclusive)
       IN IF ex = <<>>
          THEN Upd(p, [pc |-> "done", cmd |-> "activate", id |-> now + 1, name |-> n,
                       result |-> "err", failedAt |-> "no_exclusive"])
          ELSE Upd(p, [pc |-> "act_check", cmd |-> "activate", id |-> now + 1, name |-> n,
                       repos |-> sessions[n].json.repos, excl |-> ex, idx |-> 1,
                       lk |-> NoLock, transfers |-> <<>>, toreDown |-> {}, acquired |-> {},
                       report |-> {}, ran |-> {}, result |-> "none", failedAt |-> "none"])
  /\ now' = now + 1
  /\ UNCHANGED <<sessions, wtReg, wtDir, branches, locks, alive, limit, granted, lm, killer, exec>>

AlreadyHeldAny(seen, n) == TRUE
\* activate.rs: the lock already names the target session
AlreadyHeld(seen, n) == seen.session = n

\* activate.rs: check_lock for one exclusive repository of the target
ActivateCheck(p) ==
  LET r == run[p]
      repo == r.excl[r.idx]
      seen == check_lock(locks, repo)
  IN /\ r.pc = "act_check"
     /\ \E ok \in BOOLEAN :
          IF ~ok THEN Upd(p, Done(r, "err", "lock"))
          ELSE IF seen = NoLock THEN Upd(p, [r EXCEPT !.lk = seen, !.pc = "act_write"])
          ELSE IF AlreadyHeld(seen, r.name)
               THEN Upd(p, GoActivate([r EXCEPT !.report = @ \cup {<<"already", repo>>}],
                                      r.idx + 1))
          ELSE Upd(p, [r EXCEPT !.lk = seen, !.pc = "act_exists"])
     /\ UNCHANGED <<sessions, wtReg, wtDir, branches, locks, alive, now, limit, granted, lm, killer, exec>>

\* activate.rs: a holder that still exists is queued for teardown
ActivateExists(p) ==
  LET r == run[p]
      repo == r.excl[r.idx]
  IN /\ r.pc = "act_exists"
     /\ IF session_exists(sessions, r.lk.session)
        THEN Upd(p, [r EXCEPT !.transfers = Append(@, <<repo, r.lk.session>>), !.pc = "act_write"])
        ELSE Upd(p, [r EXCEPT !.report = @ \cup {<<"stale", repo>>}, !.pc = "act_write"])
     /\ UNCHANGED <<sessions, wtReg, wtDir, branches, locks, alive, now, limit, granted, lm, killer, exec>>

\* activate.rs: acquire_lock for the target session
ActivateWrite(p) ==
  LET r == run[p]
      repo == r.excl[r.idx]
      displaced == IF r.lk = NoLock THEN {} ELSE {r.lk.session}
  IN /\ r.pc = "act_write"
     /\ \E ok \in BOOLEAN :
          IF ok
          THEN /\ locks' = acquire_lock(locks, repo, r.name, r.id)
               /\ granted' = [granted EXCEPT ![repo] = (@ \ displaced) \cup {r.name}]
               /\ Upd(p, GoActivate([r EXCEPT !.acquired = @ \cup {repo}], r.idx + 1))
          ELSE /\ Upd(p, Done(r, "err", "lock"))
               /\ UNCHANGED <<locks, granted>>
     /\ UNCHANGED <<sessions, wtReg, wtDir, branches, alive, now, limit, lm, killer, exec>>

\* activate.rs: kill the background pids and run the teardown scripts of
\* every session that lost a lock and whose record still loads
ActivateTeardown(p) ==
  LET r == run[p]
      old == {r.transfers[i][2] : i \in 1..Len(r.transfers)}
      loaded == old \cap list_sessions(sessions)
  IN /\ r.pc = "act_teardown"
     /\ alive' = {x \in alive : ~(x.sess \in loaded /\ x.label \in SeqToSet(sessions[x.sess].pids))}
     /\ Upd(p, [r EXCEPT !.toreDown = loaded, !.pc = "act_setup"])
     /\ UNCHANGED <<sessions, wtReg, wtDir, branches, locks, now, limit, granted, lm, killer, exec>>

\* activate.rs: the target's setup scripts, all in the foreground
ActivateSetup(p) ==
  LET r == run[p]
  IN /\ r.pc = "act_setup"
     /\ \E ok \in BOOLEAN :
          Upd(p, IF ok THEN Done([r EXCEPT !.ran = SeqToSet(ScriptPlan(r.repos, <<>>))], "ok", "none")
                 ELSE Done(r, "err", "script"))
     /\ UNCHANGED <<sessions, wtReg, wtDir, branches, locks, alive, now, limit, granted, lm, killer, exec>>

Activate(p) ==
  \/ BeginActivate(p) \/ ActivateCheck(p) \/ ActivateExists(p)
  \/ ActivateWrite(p) \/ ActivateTeardown(p) \/ ActivateSetup(p)

\* ---------------------------------------------------------------- doctor
MissingWorktreesNone(s, dirs) == {}
\* doctor.rs: a registry session with a worktree path missing on disk
MissingWorktrees(s, dirs) ==
  {x \in list_sessions(s) \X Repos : x[2] \in SeqToSet(s[x[1]].json.repos)} \ dirs
\* doctor.rs: registered worktrees under .sesh owned by no session
Orphaned(s, reg) ==
  {w \in reg : ~(w.sess \in list_sessions(s) /\ w.repo \in SeqToSet(s[w.sess].json.repos))}
StaleDirsAll(s) == DOMAIN s
\* doctor.rs: session directories without session.json
StaleDirs(s) == {n \in DOMAIN s : s[n].json = NoRec}
\* doctor.rs: locks whose session no longer exists
StaleLocks(s, l) == {r \in list_locks(l) : ~session_exists(s, l[r].session)}

\* doctor.rs run: the read pass
DoctorRead(p) ==
  LET issues == MissingWorktrees(sessions, wtDir) # {} \/ Orphaned(sessions, wtReg) # {}
                \/ StaleDirs(sessions) # {} \/ StaleLocks(sessions, locks) # {}
      r == [pc |-> "doc_confirm", cmd |-> "doctor", id |-> now + 1,
            missing |-> MissingWorktrees(sessions, wtDir),
            stale_dirs |-> StaleDirs(sessions),
            stale_locks |-> StaleLocks(sessions, locks), result |-> "none", failedAt |-> "none"]
  IN /\ CanBegin(p)
     /\ Upd(p, IF issues THEN r ELSE Done(r, "ok", "none"))
     /\ now' = now + 1
     /\ UNCHANGED <<sessions, wtReg, wtDir, branches, locks, alive, limit, granted, lm, killer, exec>>

\* doctor.rs: the operator declines the fix
DoctorDecline(p) ==
  /\ run[p].pc = "doc_confirm"
  /\ Upd(p, Done(run[p], "ok", "declined"))
  /\ UNCHANGED <<sessions, wtReg, wtDir, branches, locks, alive, now, limit, granted, lm, killer, exec>>

\* doctor.rs: the write pass: prune, remove stale directories, remove stale
\* locks; a removal that fails is a warning
DoctorFix(p) ==
  LET r == run[p]
  IN /\ r.pc = "doc_confirm"
     /\ wtReg' = {w \in wtReg : <<w.sess, w.repo>> \in wtDir}
     /\ \E ok_dirs, ok_locks \in BOOLEAN :
          LET gone == IF ok_dirs THEN StaleDirs(sessions) ELSE {}
              freed == IF ok_locks THEN r.stale_locks ELSE {}
          IN /\ sessions' = [n \in DOMAIN sessions \ gone |-> sessions[n]]
             /\ wtDir' = {d \in wtDir : d[1] \notin gone}
             /\ locks' = [x \in Repos |-> IF x \in freed THEN release_lock(locks, x)[x] ELSE locks[x]]
     /\ Upd(p, Done(r, "ok", "fixed"))
     /\ UNCHANGED <<branches, alive, now, limit, granted, lm, killer, exec>>

Doctor(p) == DoctorRead(p) \/ DoctorDecline(p) \/ DoctorFix(p)

\* ------------------------------------------------------- specifications
InitFs ==
  /\ sessions = <<>>
  /\ wtReg = {} /\ wtDir = {} /\ branches = {}
  /\ locks = [r \in Repos |-> NoLock]
  /\ alive = {}
  /\ now = 0
  /\ run = [p \in Procs |-> Idle]
  /\ granted = [r \in Repos |-> {}]
  /\ lm = NoCall
  /\ killer = NoKill
  /\ exec = NoExec

Init == InitFs /\ limit = MaxInv

\* invocations one after the other
Next == \E p \in {1} : Provision(p) \/ Stop(p) \/ Activate(p) \/ Doctor(p) \/ Return(p)

Spec == Init /\ [][Next]_vars

\* overlapping start invocations
InitConc == InitFs /\ limit = MaxConcInv
NextConc == \E p \in Procs : BeginStart(p) \/ ProvisionSteps(p) \/ Return(p)
SpecConc == InitConc /\ [][NextConc]_vars

\* the lock manager on its own: acquire, release and check called directly
LockSessions == {sanitize_session_name(b, {}) : b \in Branches}
                  \cup {sanitize_session_name(b, {BaseName(b)}) : b \in Branches}
LmAcquire(r, n) ==
  /\ \E ok \in BOOLEAN :
       /\ locks' = IF ok THEN acquire_lock(locks, r, n, now + 1) ELSE locks
       /\ lm' = [op |-> "acquire", repo |-> r, session |-> n, ok |-> ok]
LmRelease(r) ==
  /\ \E ok \in BOOLEAN :
       /\ ~ok => locks[r] # NoLock
       /\ locks' = IF ok THEN release_lock(locks, r) ELSE locks
       /\ lm' = [op |-> "release", repo |-> r, ok |-> ok]
LmCheck(r) ==
  /\ lm' = [op |-> "check", repo |-> r, ok |-> TRUE, result |-> check_lock(locks, r)]
  /\ UNCHANGED locks
InitLock == InitFs /\ limit = MaxLockOps
NextLock ==
  /\ now < limit /\ now' = now + 1
  /\ \E r \in Repos : LmCheck(r) \/ LmRelease(r) \/ \E n \in LockSessions : LmAcquire(r, n)
  /\ UNCHANGED <<sessions, wtReg, wtDir, branches, alive, limit, run, granted, killer, exec>>
SpecLock == InitLock /\ [][NextLock]_vars

\* ------------------------------------------- kill_background_pids on its own
\* the recorded pids, in the order of background_pids.json
KillPids == <<"a", "b">>
\* what a process does: exit on the graceful signal, exit at a time of its
\* own, or ignore the graceful signal
Kinds == {"prompt", "slow", "stubborn"}

PollDoneAtOnce(any_alive, late) == TRUE
PollDoneNoDeadline(any_alive, late) == ~any_alive
\* scripts.rs: if !any_alive || Instant::now() >= deadline { break; }
PollDone(any_alive, late) == ~any_alive \/ late

\* the next recorded pid of a loop over pids, or the position after the loop
KillNext(k, after) ==
  IF k.idx = Len(k.pids) THEN [k EXCEPT !.pc = after, !.idx = 1] ELSE [k EXCEPT !.idx = @ + 1]

\* scripts.rs: kill -TERM <pid>, its result dropped
KillTerm ==
  LET k == killer
      x == k.pids[k.idx]
  IN /\ k.pc = "term"
     /\ killer' = KillNext([k EXCEPT !.termed = @ \cup {x},
                                     !.up = IF k.kind[x] = "prompt" THEN @ \ {x} ELSE @], "poll")

\* scripts.rs is_process_alive inside pids.iter().any(..): one probe
KillPoll ==
  LET k == killer
      x == k.pids[k.idx]
  IN /\ k.pc = "poll"
     /\ killer' = IF x \in k.up
                  THEN [k EXCEPT !.pc = "decide", !.any_alive = TRUE, !.probed = @ \cup {x}]
                  ELSE KillNext([k EXCEPT !.any_alive = FALSE], "decide")

\* scripts.rs: break out of the wait loop, or sleep 200 ms and poll again
KillDecide ==
  LET k == killer
  IN /\ k.pc = "decide"
     /\ \E late \in BOOLEAN :
          /\ k.ticks = MaxPolls => late
          /\ killer' = IF PollDone(k.any_alive, late)
                       THEN [k EXCEPT !.pc = "final", !.idx = 1, !.late = late]
                       ELSE [k EXCEPT !.pc = "poll", !.idx = 1,
                                      !.ticks = IF @ < MaxPolls THEN @ + 1 ELSE @]

\* scripts.rs: the probe of the SIGKILL loop
KillFinalProbe ==
  LET k == killer
      x == k.pids[k.idx]
  IN /\ k.pc = "final"
     /\ killer' = IF x \in k.up
                  THEN [k EXCEPT !.pc = "send_kill", !.survivors = @ \cup {x}]
                  ELSE KillNext(k, "done")

\* scripts.rs: kill -KILL <pid>, its result dropped
KillSend ==
  LET k == killer
      x == k.pids[k.idx]
  IN /\ k.pc = "send_kill"
     /\ killer' = KillNext([k EXCEPT !.pc = "final", !.killed = @ \cup {x}, !.up = @ \ {x}], "done")

\* a process exits at a time of its own
ProcExit ==
  /\ killer.pc \notin {"none", "done"}
  /\ \E x \in killer.up :
       /\ killer.kind[x] = "slow"
       /\ killer' = [killer EXCEPT !.up = @ \ {x}]

KillStart(up, kind) ==
  [pc |-> "term", pids |-> KillPids, idx |-> 1, up |-> up, up0 |-> up, kind |-> kind,
   termed |-> {}, probed |-> {}, survivors |-> {}, killed |-> {},
   any_alive |-> FALSE, late |-> FALSE, ticks |-> 0]

InitKill ==
  /\ sessions = <<>>
  /\ wtReg = {} /\ wtDir = {} /\ branches = {}
  /\ locks = [r \in Repos |-> NoLock]
  /\ alive = {}
  /\ now = 0 /\ limit = 0
  /\ run = [p \in Procs |-> Idle]
  /\ granted = [r \in Repos |-> {}]
  /\ lm = NoCall /\ exec = NoExec
  /\ \E up \in SUBSET SeqToSet(KillPids), kind \in [SeqToSet(KillPids) -> Kinds] :
       killer = KillStart(up, kind)
KillStep ==
  /\ KillTerm \/ KillPoll \/ KillDecide \/ KillFinalProbe \/ KillSend
  /\ UNCHANGED <<sessions, wtReg, wtDir, branches, locks, alive, now, limit, run, granted, lm, exec>>
ProcStep ==
  /\ ProcExit
  /\ UNCHANGED <<sessions, wtReg, wtDir, branches, locks, alive, now, limit, run, granted, lm, exec>>
NextKill == KillStep \/ ProcStep
SpecKill == InitKill /\ [][NextKill]_vars
\* the invocation is a running process: its next step is eventually taken
SpecKillLive == InitKill /\ [][NextKill]_vars /\ WF_vars(KillStep)

\* ------------------------------------------ the name derivation on its own
\* branch names handed to the derivation
NameBranches ==
  { <<"f", "/", "x">>, <<"f", "-", "x">>, <<".", "g">>, <<"g">>, <<".", ".">> }
\* directory names that may exist under .sesh/sessions
NameDirs ==
  { <<"f", "-", "x">>, <<"f", "-", "x", "-", "2">>, <<"f", "-", "x", "-", "3">>,
    <<"g">>, <<"g", "-", "2">>, <<"s", "e", "s", "s", "i", "o", "n">> }
InitName ==
  /\ wtReg = {} /\ wtDir = {} /\ branches = {}
  /\ locks = [r \in Repos |-> NoLock]
  /\ alive = {}
  /\ now = 0 /\ limit = 0
  /\ granted = [r \in Repos |-> {}]
  /\ lm = NoCall /\ killer = NoKill /\ exec = NoExec
  /\ \E E \in SUBSET NameDirs, b \in NameBranches :
       /\ sessions = [n \in E |-> [json |-> NoRec, pids |-> <<>>]]
       /\ run = [p \in Procs |-> IF p = 1 THEN [pc |-> "derive", branch |-> b] ELSE Idle]
\* start.rs: let session_name = sanitize_session_name(&branch_name, parent_dir)
DeriveName(p) ==
  /\ run[p].pc = "derive"
  /\ Upd(p, [pc |-> "derived", branch |-> run[p].branch,
             name |-> sanitize_session_name(run[p].branch, DOMAIN sessions)])
  /\ UNCHANGED <<sessions, wtReg, wtDir, branches, locks, alive, now, limit, granted, lm, killer, exec>>
NextName == \E p \in Procs : DeriveName(p)
SpecName == InitName /\ [][NextName]_vars

\* ------------------------------- provisioning over a wider selection
\* the selection grows to this many repositories
MaxSel == 3
\* repositories discovered under the parent directory, in order
WideOrder == <<"api", "infra", "web", "docs">>
WideSel == {SubSeq(WideOrder, 1, k) : k \in 1..MaxSel}
\* one start or checkout that has resolved its branch and selection
InitWide ==
  /\ sessions = <<>>
  /\ wtReg = {} /\ wtDir = {} /\ branches = {}
  /\ locks = [r \in Repos |-> NoLock]
  /\ alive = {}
  /\ now = 0 /\ limit = 1
  /\ granted = [r \in Repos |-> {}]
  /\ lm = NoCall /\ killer = NoKill /\ exec = NoExec
  /\ \E c \in {"start", "checkout"}, b \in Branches, sel \in WideSel :
       run = [p \in Procs |->
                IF p = 1
                THEN [NewRun(c, b, {}, FALSE) EXCEPT !.sel = sel]
                ELSE Idle]
\* the worktree loop and the rollback of that invocation
NextWide == \E p \in {1} : WorktreeStep(p) \/ Rollback(p) \/ Return(p)
SpecWide == InitWide /\ [][NextWide]_vars

\* ------------------------------------------------------------------ exec
\* how the command of one repository ends: exit status zero, a non-zero
\* exit status, or `sh` could not be launched in the worktree
Outcomes == {"ok", "nonzero", "launch_err"}
AnyFailedLast(prev, out) == out # "ok"
\* exec.rs: any_failed is set on a non-zero exit and on a launch error
AnyFailed(prev, out) == prev \/ out # "ok"
\* exec.rs: what the main thread prints for a joined thread
Block(r, out) ==
  <<[repo |-> r, part |-> "header"]>>
  \o (IF out = "launch_err" THEN <<[repo |-> r, part |-> "failed to execute"]>>
      ELSE <<[repo |-> r, part |-> "stdout"], [repo |-> r, part |-> "stderr"]>>
           \o (IF out = "nonzero" THEN <<[repo |-> r, part |-> "exited with"]>> ELSE <<>>))
  \o <<[repo |-> r, part |-> "blank"]>>
\* the session exec is run on
ExecName == <<"g">>

\* exec.rs run: pick_session, the repositories whose worktree exists, one
\* spawned thread per repository
ExecBegin ==
  LET repos == Filter(sessions[ExecName].json.repos,
                      {r \in SeqToSet(sessions[ExecName].json.repos) : <<ExecName, r>> \in wtDir})
      e == [pc |-> "join", name |-> ExecName, repos |-> repos, idx |-> 1,
            th |-> [r \in SeqToSet(repos) |-> "running"],
            runs |-> [r \in SeqToSet(repos) |-> 0],
            any_failed |-> FALSE, out |-> <<>>, result |-> "none", failedAt |-> "none"]
  IN /\ exec.pc = "begin"
     /\ exec' = IF repos = <<>>
              THEN [e EXCEPT !.pc = "done", !.result = "err", !.failedAt = "no_worktrees"]
              ELSE e
     /\ UNCHANGED <<sessions, wtReg, wtDir, branches, locks, alive, now, limit, run, granted, lm, killer>>
\* the thread of one repository: Command::new("sh").output() captures the
\* output and returns it with the status
ExecThread ==
  /\ exec.pc \in {"join", "report"}
  /\ \E r \in DOMAIN exec.th, o \in Outcomes :
       /\ exec.th[r] = "running"
       /\ exec' = [exec EXCEPT !.th[r] = o, !.runs[r] = @ + 1]
  /\ UNCHANGED <<sessions, wtReg, wtDir, branches, locks, alive, now, limit, run, granted, lm, killer>>
\* handle.join() for the next repository, then its block is printed
ExecJoin ==
  LET r == exec.repos[exec.idx]
  IN /\ exec.pc = "join"
     /\ exec.th[r] # "running"
     /\ exec' = [exec EXCEPT !.out = @ \o Block(r, exec.th[r]),
                         !.any_failed = AnyFailed(@, exec.th[r]),
                         !.idx = @ + 1,
                         !.pc = IF exec.idx = Len(exec.repos) THEN "report" ELSE "join"]
     /\ UNCHANGED <<sessions, wtReg, wtDir, branches, locks, alive, now, limit, run, granted, lm, killer>>
\* exec.rs: bail if any command failed
ExecReturn ==
  /\ exec.pc = "report"
  /\ exec' = [exec EXCEPT !.pc = "done",
                      !.result = IF exec.any_failed THEN "err" ELSE "ok",
                      !.failedAt = IF exec.any_failed THEN "command" ELSE "none"]
  /\ UNCHANGED <<sessions, wtReg, wtDir, branches, locks, alive, now, limit, run, granted, lm, killer>>

\* a session over a selection, with any of its worktrees on disk
InitExec ==
  /\ branches = {}
  /\ locks = [r \in Repos |-> NoLock]
  /\ alive = {}
  /\ now = 0 /\ limit = 0
  /\ run = [p \in Procs |-> Idle]
  /\ granted = [r \in Repos |-> {}]
  /\ lm = NoCall /\ killer = NoKill
  /\ exec = [pc |-> "begin"]
  /\ \E sel \in WideSel, E \in SUBSET SeqToSet(WideOrder) :
       /\ E \subseteq SeqToSet(sel)
       /\ sessions = [n \in {ExecName} |->
                        [json |-> [present |-> TRUE, name |-> ExecName, branch |-> <<"g">>,
                                   repos |-> sel, created_at |-> 0],
                         pids |-> <<>>]]
       /\ wtDir = {<<ExecName, r>> : r \in E}
       /\ wtReg = {Wt(ExecName, r, <<"g">>) : r \in E}
NextExec == ExecBegin \/ ExecThread \/ ExecJoin \/ ExecReturn
SpecExec == InitExec /\ [][NextExec]_vars

\* ------------------------ activate with every repository exclusive
\* the session to activate and the session that may hold the locks
ActTarget == <<"f", "-", "x">>
ActHolder == <<"g">>
\* two sessions over both repositories, sesh.toml marking both repositories
\* exclusive; the holder has one recorded background process; activate of
\* the target has picked its session and its exclusive repositories
InitActWide ==
  /\ sessions = [n \in {ActTarget, ActHolder} |->
                   [json |-> [present |-> TRUE, name |-> n,
                              branch |-> IF n = ActHolder THEN <<"g">> ELSE <<"f", "/", "x">>,
                              repos |-> RepoOrder, created_at |-> 0],
                    pids |-> IF n = ActHolder THEN <<Label("global", <<"up", ".sh">>)>> ELSE <<>>]]
  /\ wtDir = {ActTarget, ActHolder} \X Repos
  /\ wtReg = {Wt(n, r, sessions[n].json.branch) : n \in {ActTarget, ActHolder}, r \in Repos}
  /\ branches = {<<r, sessions[n].json.branch>> : n \in {ActTarget, ActHolder}, r \in Repos}
  /\ locks \in [Repos -> {NoLock} \cup {[present |-> TRUE, session |-> n, locked_at |-> 0] :
                                       n \in {ActTarget, ActHolder, <<"g", "-", "2">>}}]
  /\ alive = {[sess |-> ActHolder, label |-> Label("global", <<"up", ".sh">>)]}
  /\ now = 1 /\ limit = 1
  /\ granted = [r \in Repos |-> IF locks[r] = NoLock THEN {} ELSE {locks[r].session}]
  /\ lm = NoCall /\ killer = NoKill /\ exec = NoExec
  /\ run = [p \in Procs |->
              IF p = 1
              THEN [pc |-> "act_check", cmd |-> "activate", id |-> 1, name |-> ActTarget,
                    repos |-> RepoOrder, excl |-> RepoOrder, idx |-> 1,
                    lk |-> NoLock, transfers |-> <<>>, toreDown |-> {}, acquired |-> {},
                    report |-> {}, ran |-> {}, result |-> "none", failedAt |-> "none"]
              ELSE Idle]
NextActWide ==
  \E p \in {1} :
    \/ ActivateCheck(p) \/ ActivateExists(p) \/ ActivateWrite(p)
    \/ ActivateTeardown(p) \/ ActivateSetup(p) \/ Return(p)
SpecActWide == InitActWide /\ [][NextActWide]_vars

\* ------------------- doctor or stop overlapping with activate or start
\* the target session, with or without the other session, both over infra;
\* the lock of infra is free, held by the other session, or left behind by a
\* session that is gone (a lock whose holder is absent is stale)
InitRace ==
  /\ \E S \in {{ActTarget}, {ActTarget, ActHolder}} :
       /\ sessions = [n \in S |->
                        [json |-> [present |-> TRUE, name |-> n,
                                   branch |-> IF n = ActHolder THEN <<"g">> ELSE <<"f", "/", "x">>,
                                   repos |-> <<"infra">>, created_at |-> 0],
                         pids |-> <<>>]]
       /\ wtDir = S \X {"infra"}
       /\ wtReg = {Wt(n, "infra", sessions[n].json.branch) : n \in S}
       /\ branches = {<<"infra", sessions[n].json.branch>> : n \in S}
  /\ \E l \in {NoLock, [present |-> TRUE, session |-> ActHolder, locked_at |-> 0]} :
       locks = [r \in Repos |-> IF r = "infra" THEN l ELSE NoLock]
  /\ alive = {}
  /\ now = 0 /\ limit = MaxConcInv
  /\ granted = [r \in Repos |-> IF locks[r] = NoLock THEN {} ELSE {locks[r].session}]
  /\ lm = NoCall /\ killer = NoKill /\ exec = NoExec
  /\ run = [p \in Procs |-> Idle]
\* one process runs doctor or stop, the other activate or start, their steps
\* interleaved
NextRace ==
  \/ Doctor(1) \/ Stop(1) \/ Return(1)
  \/ Activate(2) \/ BeginStart(2) \/ ProvisionSteps(2) \/ Return(2)
SpecRace == InitRace /\ [][NextRace]_vars

\* ------------------------------- doctor over any content of .sesh/sessions
\* each of two session names has no directory, a directory without
\* session.json, one whose session.json does not parse, or one with a valid
\* record over infra and its worktree; the lock of infra is free or names
\* one of the two
InitReg ==
  /\ \E S \in SUBSET {ActTarget, ActHolder} :
       /\ sessions \in [S -> {[json |-> j, pids |-> <<>>] : j \in {NoRec, Garbled}}
                              \cup {[json |-> [present |-> TRUE, name |-> n,
                                               branch |-> IF n = ActHolder THEN <<"g">> ELSE <<"f", "/", "x">>,
                                               repos |-> <<"infra">>,
                                               created_at |-> 0],
                                     pids |-> <<>>] : n \in S}]
       /\ \A n \in list_sessions(sessions) : sessions[n].json.name = n
  /\ wtDir = list_sessions(sessions) \X {"infra"}
  /\ wtReg = {Wt(n, "infra", sessions[n].json.branch) : n \in list_sessions(sessions)}
  /\ branches = {<<"infra", sessions[n].json.branch>> : n \in list_sessions(sessions)}
  /\ \E l \in {NoLock} \cup {[present |-> TRUE, session |-> n, locked_at |-> 0] :
                               n \in {ActTarget, ActHolder}} :
       locks = [r \in Repos |-> IF r = "infra" THEN l ELSE NoLock]
  /\ alive = {}
  /\ now = 0 /\ limit = 1
  /\ granted = [r \in Repos |-> IF locks[r] = NoLock THEN {} ELSE {locks[r].session}]
  /\ lm = NoCall /\ killer = NoKill /\ exec = NoExec
  /\ run = [p \in Procs |-> Idle]
NextReg == Doctor(1) \/ Return(1)
SpecReg == InitReg /\ [][NextReg]_vars

\* --------------------------- background setup entries of any configuration
\* a list of setup entries has at most this many entries
MaxEntries == 2
\* the script paths a configuration may list
LabelPaths == {<<"x", ".sh">>, <<".", "/", "x", ".sh">>, <<"a", "/", "x", ".sh">>, <<"a", "-", "x">>}
\* the lists of at most MaxEntries background entries
LabelEntries ==
  UNION {[1..k -> {[path |-> q, background |-> TRUE] : q \in LabelPaths}] : k \in 0..MaxEntries}
\* a start of branch g over one repository that has created its worktree,
\* saved its record and passed the lock loop, under a configuration with
\* any global and any per-repo background setup entries
InitLabel ==
  /\ \E repo \in Repos, gl \in LabelEntries, pr \in LabelEntries :
       /\ gl \o pr # <<>>
       /\ sessions = (<<"g">> :> [json |-> [present |-> TRUE, name |-> <<"g">>, branch |-> <<"g">>,
                                           repos |-> <<repo>>, created_at |-> 1],
                                  pids |-> <<>>])
       /\ wtDir = {<<<<"g">>, repo>>}
       /\ wtReg = {Wt(<<"g">>, repo, <<"g">>)}
       /\ branches = {<<repo, <<"g">>>>}
       /\ now = 1 /\ limit = 1
       /\ run = [p \in Procs |->
                   IF p = 1
                   THEN [NewRun("start", <<"g">>, {repo}, FALSE) EXCEPT
                           !.id = 1, !.name = <<"g">>, !.excl = <<>>, !.pc = "script",
                           !.idx = 1, !.created = <<repo>>, !.saved = TRUE, !.touched = TRUE,
                           !.scripts = [i \in 1..Len(gl) |-> [scope |-> "global", entry |-> gl[i]]]
                                       \o [i \in 1..Len(pr) |-> [scope |-> repo, entry |-> pr[i]]]]
                   ELSE Idle]
  /\ locks = [r \in Repos |-> NoLock]
  /\ alive = {}
  /\ granted = [r \in Repos |-> {}]
  /\ lm = NoCall /\ killer = NoKill /\ exec = NoExec
NextLabel == SetupScript(1) \/ Finish(1) \/ Return(1)
SpecLabel == InitLabel /\ [][NextLabel]_vars

\* ------------------------------------------------------------- properties
\* a start or checkout invocation that got past conflict detection
IsProv(p) ==
  /\ run[p].pc # "idle"
  /\ run[p].cmd \in {"start", "checkout"}
  /\ run[p].failedAt \notin {"config", "conflict"}
PostSave(p) ==
  \/ run[p].pc \in {"lock_check", "lock_exists", "lock_write", "script", "finish"}
  \/ run[p].touched \/ run[p].acquired # {} \/ run[p].ran # {} \/ run[p].bg # <<>>
WritePending(p, repo) == run[p].pc = "lock_write" /\ run[p].excl[run[p].idx] = repo
Stale(r) == locks[r] # NoLock /\ ~session_exists(sessions, locks[r].session)

\* C1: when a provisioning run returns after a failed worktree step, none of
\* the worktrees it created is still on disk or registered
FullRollback ==
  \A p \in Procs :
    (IsProv(p) /\ run[p].pc = "done" /\ run[p].failedAt \in {"worktree", "probe"})
      => \A r \in SeqToSet(run[p].created) :
           <<run[p].name, r>> \notin wtDir /\ Wt(run[p].name, r, run[p].branch) \notin wtReg

\* C2: a run checks or writes a lock, or runs or spawns a setup script, only
\* after every selected worktree was created and its session.json was written
RecordBeforeLocksAndScripts ==
  \A p \in Procs :
    (IsProv(p) /\ PostSave(p))
      => /\ run[p].saved
         /\ run[p].created = run[p].sel
         /\ session_exists(sessions, run[p].name)
         /\ sessions[run[p].name].json.created_at = run[p].id
RecordBeforeLocksAndScriptsWitness ==
  \E p \in Procs :
    /\ IsProv(p) /\ run[p].pc = "done" /\ run[p].result = "ok"
    /\ run[p].acquired # {} /\ run[p].ran # {} /\ Len(run[p].sel) = 2

\* C3: a run that fails in lock arbitration or in a setup script returns an
\* error and leaves its session record and all of its worktrees in place
DegradedNotRolledBack ==
  \A p \in Procs :
    (IsProv(p) /\ run[p].pc = "done" /\ run[p].failedAt \in {"lock", "script"})
      => /\ run[p].result = "err"
         /\ run[p].name \in list_sessions(sessions)
         /\ sessions[run[p].name].json.repos = run[p].sel
         /\ \A r \in SeqToSet(run[p].sel) :
              <<run[p].name, r>> \in wtDir /\ Wt(run[p].name, r, run[p].branch) \in wtReg
DegradedNotRolledBackWitness ==
  \E p \in Procs :
    /\ IsProv(p) /\ run[p].pc = "done" /\ run[p].failedAt = "script"
    /\ Len(run[p].sel) = 2 /\ run[p].name \in list_sessions(sessions)

\* C4: no per-repo setup script of a repository skipped for lock contention
\* is run or spawned by the run that skipped it
SkippedRepoScriptsNeverRun ==
  \A p \in Procs :
    IsProv(p) => \A e \in run[p].ran : e.scope \notin SeqToSet(run[p].skipped)

\* C5: a lock found held by a session that exists is left as it was: the
\* repository is skipped and reported, never acquired, and the lock file
\* keeps the content that was read
SkipLeavesHolder ==
  \A p \in Procs :
    IsProv(p) =>
      \A f \in run[p].found :
        f.live => /\ f.repo \in SeqToSet(run[p].skipped)
                  /\ f.repo \notin run[p].acquired
                  /\ <<"skipped", f.repo>> \in run[p].report
                  /\ locks[f.repo] = f.lock
SkipLeavesHolderWitness ==
  \E p \in Procs :
    /\ IsProv(p) /\ run[p].pc = "done"
    /\ \E f \in run[p].found :
         f.live /\ f.lock.session # run[p].name /\ locks[f.repo] = f.lock

\* C6: a lock found held by a session that does not exist is reclaimed: once
\* the write has returned without error the lock names the new session, the
\* repository is not skipped and the reclaim is reported
StaleLockReclaimed ==
  \A p \in Procs :
    IsProv(p) =>
      \A f \in run[p].found :
        (~f.live /\ ~WritePending(p, f.repo) /\ <<"error", f.repo>> \notin run[p].report)
          => /\ locks[f.repo] = [present |-> TRUE, session |-> run[p].name,
                                 locked_at |-> run[p].id]
             /\ f.repo \notin SeqToSet(run[p].skipped)
             /\ <<"reclaimed", f.repo>> \in run[p].report
StaleLockReclaimedWitness ==
  \E p \in Procs :
    /\ IsProv(p) /\ run[p].pc = "done"
    /\ \E f \in run[p].found :
         ~f.live /\ f.lock.session # run[p].name /\ locks[f.repo].session = run[p].name


\* a step of a stop invocation of process p
StopStep(p) == run'[p].pc # "idle" /\ run'[p].cmd = "stop"
\* the steps allowed to change a stale lock: a reclaim by start or checkout,
\* an acquire by activate, the confirmed repair pass of doctor
Reclaims(p, r) ==
  /\ run[p].pc = "lock_write" /\ run[p].stale /\ run[p].excl[run[p].idx] = r
  /\ locks'[r].session = run[p].name
ActivateAcquires(p, r) ==
  /\ run[p].pc = "act_write" /\ run[p].excl[run[p].idx] = r
  /\ locks'[r].session = run[p].name
Repairs(p, r) ==
  /\ run[p].pc = "doc_confirm" /\ run'[p].failedAt = "fixed" /\ locks'[r] = NoLock

OneLiveHolder ==
  \A r \in Exclusive :
    LET live == {n \in granted[r] : session_exists(sessions, n)}
    IN /\ Cardinality(live) <= 1
       /\ \A n \in live : locks[r] # NoLock /\ locks[r].session = n
OneLiveHolderWitness ==
  \E p \in Procs :
    /\ run[p].pc = "done" /\ run[p].cmd = "activate" /\ run[p].result = "ok"
    /\ \E i \in 1..Len(run[p].transfers) :
         /\ session_exists(sessions, run[p].transfers[i][2])
         /\ granted[run[p].transfers[i][1]] = {run[p].name}
         /\ locks[run[p].transfers[i][1]].session = run[p].name

\* C9: acquire is a blind write: a start that reaches the write sets the lock
\* to its own session whatever the file holds by then, so the file names the
\* last writer only
BlindAcquire ==
  [][ \A p \in Procs :
        (run[p].pc = "lock_write" /\ run'[p].pc # "lock_write"
           /\ <<"error", run[p].excl[run[p].idx]>> \notin run'[p].report)
          => locks'[run[p].excl[run[p].idx]] =
               [present |-> TRUE, session |-> run[p].name, locked_at |-> run[p].id]
    ]_vars
\* two overlapping starts of different sessions both read "no lock", both
\* wrote the lock, neither skipped
BlindAcquireWitness ==
  \E p \in Procs, q \in Procs :
    /\ p # q /\ IsProv(p) /\ IsProv(q)
    /\ run[p].name # run[q].name
    /\ run[p].lk = NoLock /\ run[q].lk = NoLock
    /\ "infra" \in run[p].acquired /\ "infra" \in run[q].acquired
    /\ run[p].skipped = <<>> /\ run[q].skipped = <<>>
    /\ locks["infra"].session = run[q].name

\* C10: acquire(repo, S) makes check(repo) return S; release(repo) makes it
\* return none and succeeds without any change on an absent lock; check
\* changes nothing and returns the file's content; a failed call changes
\* nothing; no call changes the lock of another repository
LockManagerLaw ==
  [][ /\ \A r \in Repos \ {lm'.repo} : locks'[r] = locks[r]
      /\ lm'.op = "acquire" /\ lm'.ok
           => (check_lock(locks', lm'.repo) # NoLock
               /\ check_lock(locks', lm'.repo).session = lm'.session)
      /\ lm'.op = "release" /\ lm'.ok => locks'[lm'.repo] = NoLock
      /\ lm'.op = "release" /\ locks[lm'.repo] = NoLock => (lm'.ok /\ locks' = locks)
      /\ lm'.op = "check" => (locks' = locks /\ lm'.result = locks[lm'.repo])
      /\ ~lm'.ok => locks' = locks
    ]_vars
LockManagerLawWitness ==
  /\ lm.op = "check" /\ lm.result # NoLock
  /\ \E r \in Repos \ {lm.repo} : locks[r] # NoLock /\ locks[r].session # lm.result.session


\* a step of an activate invocation of process p
ActivateStep(p) == run'[p].pc # "idle" /\ run'[p].cmd = "activate"
\* an activate invocation past its lock loop, or returned
IsActivate(p) == run[p].pc # "idle" /\ run[p].cmd = "activate"
\* a stop invocation that returned without an error
StopReturnedOk(p) == run[p].pc = "done" /\ run[p].cmd = "stop" /\ run[p].result = "ok"
\* the worktrees of a session that git still has registered
RegisteredOf(n) == {w \in wtReg : w.sess = n}
\* the repositories whose lock names a session
LockedBy(n) == {r \in Repos : locks[r] # NoLock /\ locks[r].session = n}

TeardownBeforeTransfer ==
  \A p \in Procs :
    (IsActivate(p) /\ run[p].pc # "done" /\ run[p].failedAt = "none")
      => \A i \in 1..Len(run[p].transfers) :
           (locks[run[p].transfers[i][1]] # NoLock
              /\ locks[run[p].transfers[i][1]].session = run[p].name)
             => run[p].transfers[i][2] \in run[p].toreDown

\* C13: a step of activate(T) changes no session directory, no worktree and
\* no branch, and no lock other than those of T's exclusive repositories
ActivateFrame ==
  [][ \A p \in Procs :
        ActivateStep(p)
          => /\ sessions' = sessions /\ wtDir' = wtDir /\ wtReg' = wtReg /\ branches' = branches
             /\ \A r \in Repos :
                  locks'[r] # locks[r] => r \in SeqToSet(run'[p].excl)
    ]_vars
ActivateFrameWitness ==
  \E p \in Procs :
    /\ IsActivate(p) /\ run[p].pc = "done" /\ run[p].result = "ok"
    /\ run[p].toreDown # {}
    /\ \A n \in run[p].toreDown :
         /\ n \in list_sessions(sessions)
         /\ \A r \in SeqToSet(sessions[n].json.repos) : <<n, r>> \in wtDir
    /\ locks["api"] = NoLock

\* C14: when stop(S) has returned without an error, no recorded background
\* process of S is running, S has no session directory, none of its
\* worktrees is on disk or registered, and no lock names S
StopCleansUp ==
  \A p \in Procs :
    StopReturnedOk(p)
      => /\ run[p].name \notin DOMAIN sessions
         /\ \A x \in alive : ~(x.sess = run[p].name /\ x.label \in run[p].recorded)
         /\ \A r \in SeqToSet(run[p].repos) : <<run[p].name, r>> \notin wtDir
         /\ RegisteredOf(run[p].name) = {}
         /\ LockedBy(run[p].name) = {}

\* C15: stop deletes the session directory only in a state where none of the
\* session's worktrees is registered and no lock names the session
DeleteAfterRelease ==
  [][ \A p \in Procs :
        (run[p].pc = "stop_delete" /\ run[p].name \in DOMAIN sessions
           /\ run[p].name \notin DOMAIN sessions')
          => RegisteredOf(run[p].name) = {} /\ LockedBy(run[p].name) = {}
    ]_vars

\* C16: when a start or checkout has returned, every background process it
\* spawned is listed in the background_pids.json of its session
SpawnedAreRecorded ==
  \A p \in Procs :
    (IsProv(p) /\ run[p].pc = "done")
      => \A i \in 1..Len(run[p].bg) :
           /\ run[p].name \in DOMAIN sessions
           /\ run[p].bg[i] \in SeqToSet(sessions[run[p].name].pids)


\* C17: a recorded pid is sent the graceful or the forced signal only after a
\* liveness probe of that pid has succeeded in the same call
SignalOnlyAfterProbe ==
  killer.pc # "none"
    => (killer.termed \cup killer.killed) \subseteq (killer.probed \cup killer.survivors)

\* C18: the graceful signal goes to every recorded pid before the first
\* probe; the wait ends only when a poll found no pid alive or the deadline
\* was reached; the forced signal goes to exactly the pids the final probe
\* found alive: never to a process that exited on the graceful signal,
\* always to one that ignores it
TwoPhaseEscalation ==
  LET k == killer
      final == k.pc \in {"final", "send_kill", "done"}
  IN k.pc # "none" =>
       /\ k.pc # "term" => k.termed = SeqToSet(k.pids)
       /\ (k.probed # {} \/ k.ticks > 0) => k.termed = SeqToSet(k.pids)
       /\ final => (~k.any_alive \/ k.late)
       /\ (k.killed # {} \/ k.survivors # {}) => final
       /\ k.killed \subseteq k.survivors
       /\ \A x \in k.killed : k.kind[x] # "prompt" /\ x \in k.up0
       /\ k.pc = "done" =>
            /\ k.killed = k.survivors
            /\ \A x \in k.up0 : k.kind[x] = "stubborn" => (x \in k.killed /\ k.late)
            /\ (\A x \in k.up0 : k.kind[x] = "prompt") => (k.killed = {} /\ k.ticks = 0 /\ ~k.any_alive)
            /\ k.up = {}
TwoPhaseEscalationWitness ==
  /\ killer.pc = "done"
  /\ killer.up0 = {"a", "b"}
  /\ killer.kind["a"] = "stubborn" /\ killer.kind["b"] = "prompt"
  /\ killer.killed = {"a"}

\* C19: every call of kill_background_pids returns
KillTerminates == <>(killer.pc = "done")
KillTerminatesWitness ==
  /\ killer.pc = "done" /\ killer.ticks = MaxPolls
  /\ "a" \notin killer.up0
  /\ killer.kind["b"] = "stubborn" /\ "b" \in killer.killed


\* the branch with every '/' replaced by '-' and the leading dots dropped,
\* "session" if nothing is left
SanitizedBranch(b) ==
  LET flat == [i \in 1..Len(b) |-> IF b[i] = "/" THEN "-" ELSE b[i]]
      dots == {i \in 0..Len(flat) : \A j \in 1..i : flat[j] = "."}
      lead == CHOOSE i \in dots : \A j \in dots : j <= i
      rest == SubSeq(flat, lead + 1, Len(flat))
  IN IF rest = <<>> THEN <<"s", "e", "s", "s", "i", "o", "n">> ELSE rest
Suffixed(base, k) == base \o <<"-">> \o Dec(k)

\* C20: the derived name is the sanitized branch if no directory has that
\* name, otherwise the sanitized branch with the least suffix -k, k >= 2,
\* that no directory has; it is never the name of an existing directory
DerivedNameIsFirstFree ==
  \A p \in Procs :
    run[p].pc = "derived" =>
      LET base == SanitizedBranch(run[p].branch)
          E == DOMAIN sessions
      IN /\ run[p].name \notin E
         /\ base \notin E => run[p].name = base
         /\ base \in E =>
              \E k \in 2..(Cardinality(E) + 2) :
                /\ run[p].name = Suffixed(base, k)
                /\ \A j \in 2..(k - 1) : Suffixed(base, j) \in E
DerivedNameIsFirstFreeWitness ==
  \E p \in Procs :
    /\ run[p].pc = "derived"
    /\ run[p].branch = <<"f", "/", "x">>
    /\ {<<"f", "-", "x">>, <<"f", "-", "x", "-", "2">>, <<"f", "-", "x", "-", "3">>} \subseteq DOMAIN sessions
    /\ run[p].name = <<"f", "-", "x", "-", "4">>

\* C21: the derived name is safe as a directory name: it is not empty, holds
\* no path separator and does not begin with a dot; when the branch is
\* nothing but dots the name is the placeholder "session", suffixed if taken
DerivedNameIsSafe ==
  \A p \in Procs :
    run[p].pc = "derived" =>
      LET n == run[p].name
          placeholder == <<"s", "e", "s", "s", "i", "o", "n">>
      IN /\ n # <<>>
         /\ "/" \notin SeqToSet(n)
         /\ Head(n) # "."
         /\ (\A i \in 1..Len(run[p].branch) : run[p].branch[i] = ".") =>
              SubSeq(n, 1, Len(placeholder)) = placeholder
DerivedNameIsSafeWitness ==
  \E p \in Procs :
    /\ run[p].pc = "derived"
    /\ run[p].branch = <<".", ".">>
    /\ <<"s", "e", "s", "s", "i", "o", "n">> \in DOMAIN sessions
    /\ run[p].name = <<"s", "e", "s", "s", "i", "o", "n", "-", "2">>

\* the files doctor looks at and may repair
DoctorFs == <<sessions, wtReg, wtDir, branches, locks>>
\* a step that begins a doctor invocation: the read pass
DoctorReadStep(p) == run[p].pc = "idle" /\ run'[p].pc # "idle" /\ run'[p].cmd = "doctor"
\* a step of a doctor invocation that ends it without the write pass
DoctorEndsUnfixed(p) ==
  /\ run'[p].pc = "done" /\ run'[p].cmd = "doctor"
  /\ run'[p].failedAt \in {"none", "declined"}

\* C22: the read pass of doctor flags every worktree of a registry session
\* whose path is missing on disk and every lock whose holder is not in the
\* registry, and changes nothing; a doctor run that finds no issue or whose
\* fix is declined leaves sessions, worktrees, registrations and locks as
\* they were
DoctorReadPassIsPure ==
  [][\A p \in Procs :
       /\ DoctorReadStep(p) =>
            /\ run'[p].missing =
                 {x \in (DOMAIN sessions) \X Repos :
                    /\ sessions[x[1]].json # NoRec
                    /\ \E i \in 1..Len(sessions[x[1]].json.repos) : sessions[x[1]].json.repos[i] = x[2]
                    /\ x \notin wtDir}
            /\ run'[p].stale_locks =
                 {r \in Repos :
                    /\ locks[r] # NoLock
                    /\ ~(locks[r].session \in DOMAIN sessions
                         /\ sessions[locks[r].session].json # NoRec)}
            /\ UNCHANGED DoctorFs
            /\ (run'[p].missing = {} /\ run'[p].stale_locks = {}
                /\ Orphaned(sessions, wtReg) = {} /\ StaleDirs(sessions) = {})
                 => run'[p].pc = "done"
       /\ DoctorEndsUnfixed(p) => UNCHANGED DoctorFs]_vars
DoctorReadPassIsPureWitness ==
  \E p \in Procs :
    /\ run[p].pc = "done" /\ run[p].cmd = "doctor" /\ run[p].failedAt = "declined"
    /\ run[p].missing # {}
    /\ \E x \in run[p].missing : x[1] \in list_sessions(sessions) /\ x \notin wtDir

\* a step of doctor's write pass
DoctorFixStep(p) ==
  /\ run[p].pc = "doc_confirm"
  /\ run'[p].pc = "done" /\ run'[p].failedAt = "fixed"
\* a step of a doctor invocation that changes a file
DoctorWrites(p) ==
  /\ run'[p].pc # "idle" /\ run'[p].cmd = "doctor"
  /\ DoctorFs' # DoctorFs

\* C23: doctor changes files only in the write pass, which follows the
\* operator's confirmation; the write pass keeps every listed session, its
\* record and every worktree of it that exists, and every lock whose holder
\* is in the registry; what it removes is a session directory without a
\* record or a lock whose holder is absent
DoctorKeepsAccountedFor ==
  [][\A p \in Procs :
       /\ DoctorWrites(p) => DoctorFixStep(p)
       /\ DoctorFixStep(p) =>
            /\ \A n \in list_sessions(sessions) :
                 /\ n \in DOMAIN sessions' /\ sessions'[n] = sessions[n]
                 /\ \A r \in Repos :
                      /\ <<n, r>> \in wtDir => <<n, r>> \in wtDir'
                      /\ \A w \in wtReg :
                           (w.sess = n /\ w.repo = r /\ <<n, r>> \in wtDir) => w \in wtReg'
            /\ \A r \in Repos :
                 /\ (locks[r] # NoLock /\ session_exists(sessions, locks[r].session))
                      => locks'[r] = locks[r]
                 /\ locks'[r] # locks[r] =>
                      /\ locks'[r] = NoLock
                      /\ ~session_exists(sessions, locks[r].session)
            /\ \A n \in DOMAIN sessions :
                 /\ n \in DOMAIN sessions' => sessions'[n] = sessions[n]
                 /\ n \notin DOMAIN sessions' => sessions[n].json = NoRec
            /\ DOMAIN sessions' \subseteq DOMAIN sessions
            /\ \A d \in wtDir \ wtDir' : d[1] \notin DOMAIN sessions'
            /\ branches' = branches]_vars
\* the write pass has removed a directory without a record while a listed
\* session with a worktree on disk and a held lock is still there
DoctorKeepsAccountedForWitness ==
  \E p \in Procs :
    /\ run[p].pc = "done" /\ run[p].cmd = "doctor" /\ run[p].failedAt = "fixed"
    /\ StaleDirs(sessions) = {}
    /\ \E n \in list_sessions(sessions), r \in Repos :
         <<n, r>> \in wtDir /\ Wt(n, r, sessions[n].json.branch) \in wtReg
    /\ \E w \in wtReg : w.sess \notin DOMAIN sessions

StartBegins(p) == run[p].pc = "idle" /\ run'[p].pc # "idle" /\ run'[p].cmd = "start"
\* the step ends the invocation with a Configuration or Conflict error
StartRefused(p) ==
  /\ run'[p].pc = "done" /\ run'[p].result = "err"
  /\ run'[p].failedAt \in {"config", "conflict"}

\* C25: a start that fails with a Configuration or Conflict error has
\* changed nothing: sessions, worktrees, registrations, branches, locks and
\* background processes are as before; and a start goes on to create
\* worktrees only if no session uses the branch and the branch exists in no
\* selected repository
StartRefusedBeforeMutation ==
  [][\A p \in Procs :
       StartBegins(p) =>
         /\ StartRefused(p) => UNCHANGED <<sessions, wtReg, wtDir, branches, locks, alive>>
         /\ ~StartRefused(p) =>
              /\ run'[p].pc = "wt" /\ run'[p].created = <<>>
              /\ UNCHANGED <<sessions, wtReg, wtDir, branches, locks, alive>>
              /\ \A n \in DOMAIN sessions :
                   sessions[n].json # NoRec => sessions[n].json.branch # run'[p].branch
              /\ \A r \in SeqToSet(run'[p].sel) : <<r, run'[p].branch>> \notin branches]_vars
\* a start refused because a session already uses its branch
StartRefusedBeforeMutationWitness ==
  \E p \in Procs :
    /\ run[p].pc = "done" /\ run[p].cmd = "start" /\ run[p].failedAt = "conflict"
    /\ \E n \in list_sessions(sessions) : sessions[n].json.branch = run[p].branch

\* the setup scripts of a run's plan that belong to another repository than
\* the script at position i and come after it
LaterOtherScripts(r, i) ==
  {r.scripts[j] : j \in {k \in (i + 1)..Len(r.scripts) : r.scripts[k].scope # r.scripts[i].scope}}

\* C26: when a setup script of a start or checkout fails while scripts of
\* other repositories are still to come, the run goes on: it does not end
\* with the script's error, and the later scripts are executed
SetupFailureIsWarning ==
  \A p \in Procs :
    (IsProv(p) /\ run[p].pc = "done" /\ run[p].failedAt = "script") =>
      \A s \in LaterOtherScripts(run[p], run[p].idx) :
        \E ev \in run[p].ran : ev.scope = s.scope /\ ev.path = s.entry.path

RECURSIVE Reverse(_)
Reverse(s) == IF s = <<>> THEN <<>> ELSE Reverse(Tail(s)) \o <<Head(s)>>
\* a start or checkout in which a worktree step failed: it is rolling back
\* or has returned the error
WorktreeStepFailed(p) ==
  IsProv(p) /\ run[p].pc \in {"rollback", "done"} /\ run[p].failedAt = "worktree"

\* C28: after a failed worktree step the rollback calls remove on the
\* worktrees created so far, newest first and each once, whether or not a
\* removal fails, and the error is returned only when all were called
RollbackUndoesAll ==
  \A p \in Procs :
    WorktreeStepFailed(p) =>
      LET r == run[p]
      IN /\ r.pc = "rollback" =>
              /\ r.result = "none"
              /\ r.ridx \in 1..Len(r.created)
              /\ r.undo = Reverse(SubSeq(r.created, r.ridx + 1, Len(r.created)))
         /\ r.pc = "done" =>
              /\ r.result = "err"
              /\ r.undo = Reverse(r.created)
              /\ \A i, j \in 1..Len(r.undo) : r.undo[i] = r.undo[j] => i = j
\* two worktrees were created before the third step failed; the removal of
\* the newer one failed and the older one was still removed
RollbackUndoesAllWitness ==
  \E p \in Procs :
    /\ WorktreeStepFailed(p) /\ run[p].pc = "done"
    /\ run[p].sel = <<"api", "infra", "web">>
    /\ run[p].created = <<"api", "infra">>
    /\ run[p].undo = <<"infra", "api">>
    /\ <<run[p].name, "infra">> \in wtDir
    /\ <<run[p].name, "api">> \notin wtDir

\* C29: a checkout that returns an error from its worktree loop after it
\* created a worktree has gone through the rollback, whether a create, a
\* checkout of an existing branch or a branch-existence probe failed
CheckoutErrorsRollBack ==
  \A p \in Procs :
    (/\ IsProv(p) /\ run[p].cmd = "checkout"
     /\ run[p].pc = "done" /\ run[p].failedAt \in {"worktree", "probe"}
     /\ run[p].created # <<>>)
      => run[p].undo = Reverse(run[p].created)

\* a stop invocation that got to its teardown scripts
StopTornDown(p) == run[p].pc # "idle" /\ run[p].cmd = "stop" /\ run[p].failedAt # "config"

\* C30: a stop in which teardown scripts failed has still run every teardown
\* script of the session's repositories and every global one, does not end
\* with a teardown error, and goes on through the removal of every
\* worktree, the lock loop and the deletion of the session directory
TeardownFailureIsWarning ==
  \A p \in Procs :
    (StopTornDown(p) /\ run[p].tdFailed # {}) =>
      LET r == run[p]
          ran == {r.tdRan[i] : i \in 1..Len(r.tdRan)}
      IN /\ \A i \in 1..Len(r.repos) :
              \A j \in 1..Len(RepoTeardown(r.repos[i])) :
                [scope |-> r.repos[i], path |-> RepoTeardown(r.repos[i])[j]] \in ran
         /\ \A j \in 1..Len(GlobalTeardown) : [scope |-> "global", path |-> GlobalTeardown[j]] \in ran
         /\ r.tdFailed \subseteq ran
         /\ r.pc \in {"stop_wt", "stop_br", "stop_lock_check", "stop_lock_release", "stop_delete", "done"}
         /\ r.pc \notin {"stop_wt"} => r.tried = SeqToSet(r.repos)
         /\ r.pc = "done" =>
              /\ r.failedAt \in {"none", "delete"}
              /\ r.result = "ok" <=> r.name \notin DOMAIN sessions
\* the first teardown script failed, the later one ran, and the stop removed
\* the worktrees, released the session's lock and deleted the directory
TeardownFailureIsWarningWitness ==
  \E p \in Procs :
    /\ StopTornDown(p) /\ run[p].pc = "done" /\ run[p].result = "ok"
    /\ Len(run[p].tdRan) = 2
    /\ run[p].tdRan[1] \in run[p].tdFailed
    /\ run[p].name \notin DOMAIN sessions
    /\ "infra" \in run[p].released
    /\ \A w \in wtReg : w.sess # run[p].name

\* the repositories of the session whose worktree is on disk
ExecTargets == {r \in SeqToSet(sessions[ExecName].json.repos) : <<ExecName, r>> \in wtDir}
\* the entries printed for one repository lie next to each other
Contiguous(out) ==
  \A i, k \in 1..Len(out) :
    (i < k /\ out[i].repo = out[k].repo) => \A j \in i..k : out[j].repo = out[i].repo
\* what holds of every exec, whatever it returns: one thread per repository
\* with a worktree, the command run at most once in each, a block printed
\* only for a finished thread, in one piece
ExecRuns ==
  /\ DOMAIN exec.th = ExecTargets
  /\ \A r \in DOMAIN exec.th : exec.runs[r] = IF exec.th[r] = "running" THEN 0 ELSE 1
  /\ \A i \in 1..Len(exec.out) : exec.th[exec.out[i].repo] # "running"
  /\ Contiguous(exec.out)
  /\ exec.pc \in {"report", "done"} =>
       /\ \A r \in DOMAIN exec.th : exec.th[r] # "running" /\ exec.runs[r] = 1
       /\ \A r \in DOMAIN exec.th : \E i \in 1..Len(exec.out) : exec.out[i].repo = r
SomeCommandFailed == \E r \in DOMAIN exec.th : exec.th[r] \in {"nonzero", "launch_err"}

\* C27: exec runs the command once in every repository of the session whose
\* worktree exists, one thread each, returns only when all threads have
\* finished, prints each repository's output in one piece, and returns
\* failure exactly when some command exited non-zero or could not be launched
ExecFailsIffCommandFailed ==
  exec.pc \notin {"none", "begin"} =>
    /\ ExecRuns
    /\ exec.pc = "done" => (exec.result = "err" <=> SomeCommandFailed)

\* C27 as amended: the same, except that exec also returns failure, without
\* running anything, when no worktree of the session exists
ExecFailsIffCommandFailedOrNoWorktree ==
  exec.pc \notin {"none", "begin"} =>
    /\ ExecRuns
    /\ exec.pc = "done" => (exec.result = "err" <=> (SomeCommandFailed \/ ExecTargets = {}))
    /\ exec.pc = "done" => (exec.failedAt = "no_worktrees" <=> ExecTargets = {})
\* three threads: the first command exited non-zero, the second could not
\* be launched, the last succeeded; all three blocks are printed
ExecFailsIffCommandFailedOrNoWorktreeWitness ==
  /\ exec.pc = "done" /\ exec.result = "err"
  /\ exec.repos = <<"api", "infra", "web">>
  /\ exec.th["api"] = "nonzero" /\ exec.th["infra"] = "launch_err" /\ exec.th["web"] = "ok"
  /\ Len(exec.out) = 5 + 3 + 4

\* C31: two start invocations that overlap never write their session.json
\* under the same session name: the runs that have saved their record use
\* different session directories
OverlappingStartsDifferentNames ==
  \A p, q \in Procs :
    (p # q /\ IsProv(p) /\ IsProv(q) /\ run[p].saved /\ run[q].saved)
      => run[p].name # run[q].name

\* C32: when activate returns, with or without an error, every session that
\* still exists and whose lock the run has overwritten has been torn down:
\* its recorded background processes killed and its teardown scripts run
DisplacedTornDownOnReturn ==
  \A p \in Procs :
    (IsActivate(p) /\ run[p].pc = "done" /\ run[p].failedAt # "no_exclusive") =>
      \A i \in 1..Len(run[p].transfers) :
        LET n == run[p].transfers[i][2] IN
        (run[p].transfers[i][1] \in run[p].acquired /\ session_exists(sessions, n)) =>
          /\ n \in run[p].toreDown
          /\ \A x \in alive : ~(x.sess = n /\ x.label \in SeqToSet(sessions[n].pids))


\* C33: a start that has rolled back leaves no branch it created in any
\* repository and no session directory under its name, so that an identical
\* retry passes the branch-conflict check and derives the same session name
RollbackRestoresState ==
  \A p \in Procs :
    (IsProv(p) /\ run[p].cmd = "start" /\ run[p].pc = "done"
       /\ run[p].failedAt = "worktree") =>
      /\ \A r \in Repos : <<r, run[p].branch>> \notin branches
      /\ run[p].name \notin DOMAIN sessions
      /\ sanitize_session_name(run[p].branch, DOMAIN sessions) = run[p].name


\* C34: after a doctor write pass in which every removal succeeded, the
\* file system holds nothing a doctor read pass would report as an orphaned
\* worktree registration, a stale session directory or a stale lock
DoctorRepairIsComplete ==
  [][\A p \in Procs :
       (/\ DoctorFixStep(p)
        /\ StaleDirs(sessions) \cap DOMAIN sessions' = {}
        /\ \A r \in run[p].stale_locks : locks'[r] = NoLock) =>
         /\ Orphaned(sessions', wtReg') = {}
         /\ StaleDirs(sessions') = {}
         /\ StaleLocks(sessions', locks') = {}]_vars


\* C35: the write pass of doctor never removes a lock that, at the moment of
\* the removal, names a session existing in the registry
DoctorRemovesOnlyStaleLocks ==
  [][\A p \in Procs : \A r \in Repos :
       (DoctorFixStep(p) /\ locks[r] # NoLock /\ locks'[r] = NoLock)
         => ~session_exists(sessions, locks[r].session)]_vars

\* C36: a step of stop(A) never removes a lock file that, at the moment of
\* the removal, names another session; a lock written by activate(B) is
\* still held by B when stop(A) has finished
StopRemovesOnlyOwnLock ==
  [][\A p \in Procs : \A r \in Repos :
       (run[p].pc # "idle" /\ run[p].cmd = "stop" /\ StopStep(p)
          /\ locks[r] # NoLock /\ locks'[r] = NoLock)
         => locks[r].session = run[p].name]_vars


\* C37: the read pass of doctor flags as stale exactly the session
\* directories that list does not return: those whose session.json is
\* missing and those whose session.json does not parse
DoctorFlagsEveryUnlistedDir ==
  [][\A p \in Procs :
       DoctorReadStep(p) =>
         run'[p].stale_dirs = DOMAIN sessions \ list_sessions(sessions)]_vars

\* C38: exists(n) holds exactly for the names list returns, and every lock
\* the read pass of doctor does not flag as stale names a session that
\* pick_session can return to stop or activate
ExistsAgreesWithList ==
  [][\A p \in Procs :
       DoctorReadStep(p) =>
         /\ \A n \in DOMAIN sessions :
              session_exists(sessions, n) <=> n \in list_sessions(sessions)
         /\ \A r \in list_locks(locks) \ run'[p].stale_locks :
              locks[r].session \in list_sessions(sessions)]_vars


\* C39: every setup script a start or checkout run has invoked, global or
\* per-repo, foreground or background, received the list of repositories
\* skipped for lock contention when that list is non-empty, and no script
\* received it when the list is empty
EveryScriptGetsSkipList ==
  \A p \in Procs :
    IsProv(p) => \A ev \in run[p].ran : ev.env = run[p].skipped


\* C40: the labels of the background processes a start or checkout run
\* has spawned are pairwise distinct, so that no two spawns of the run open
\* the same log file logs/<label>.log
BackgroundLabelsDistinct ==
  \A p \in Procs :
    IsProv(p) =>
      \A i, j \in 1..Len(run[p].bg) : i # j => run[p].bg[i] # run[p].bg[j]

====
